---- MODULE Spec2Model ----
(***************************************************************************)
(* A model of src/promise/promise.py: the Promise state machine, its       *)
(* callback store, the resolution algorithm, the blocking bridge and the   *)
(* all combinator.  A promise is a record that keeps the fields of the     *)
(* class; the heap is the sequence of all promises constructed so far, a   *)
(* promise's identity being its position in it.  Every method is an        *)
(* operator from a world (the heap, the scheduler's queue, the shared      *)
(* error cell, an exception in flight) to the world it leaves behind.      *)
(* The scheduler (async_.py) is not part of the source tree; it is         *)
(* modelled from its interface as a first-in first-out queue of tasks.     *)
(* Nor is the context stack (context.py): a context is a number, a task    *)
(* is queued against the innermost context, and drain_queue runs the       *)
(* tasks queued against one context.                                       *)
(***************************************************************************)
EXTENDS Integers, Sequences, FiniteSets, TLC

(* ------------------------------ bounds -------------------------------- *)

\* promises the client may construct (constructor, then, class factories)
MaxPromises == 3
\* calls the clients make on promises (do_resolve, do_reject, then, get)
MaxOps == 3
\* promises the client constructs to pass to all, and the length of its input
MaxInputs == 2

(* ------------------------- program constants -------------------------- *)

MAX_LENGTH == 65535
CALLBACK_SIZE == 3
CALLBACK_FULFILL_OFFSET == 0
CALLBACK_REJECT_OFFSET == 1
CALLBACK_PROMISE_OFFSET == 2
PENDING == -1
REJECTED == 0
FULFILLED == 1

VARIABLES
    heap,       \* Seq of promise records: every Promise constructed so far
    queue,      \* the scheduler's queue of deferred tasks
    fatal,      \* reasons handed to the scheduler's fatal_error
    calls,      \* history: every handler invocation, in order
    error_obj,  \* the module-level cell _error_obj['e']
    counter,    \* all: the CountdownLatch's count (-1: no latch made)
    values,     \* all: the pre-allocated result list
    all_promise,\* all: the aggregate promise (0: all was not called)
    promises,   \* all: the promises its loop has taken from the input so far
    events,     \* one flag per Event made by _wait
    blocked,    \* the get call blocked in event.wait, if any, and its target
    ops,        \* history: the number of client calls made so far
    adopted,    \* history: the pending promise each promise was last resolved with
    gets,       \* history: what every get call that returned gave back
    reg,        \* history: what each then/done call registered, by dependent
    threads,    \* the frame of each thread running a method: its position and locals
    lock,       \* the CountdownLatch's RLock: the thread that holds it (0: free)
    running     \* the task the scheduler's thread stands in, behind an event.set()
                \* or the release of the latch's lock: the world it began the
                \* task in, and the number of such places it has passed

vars == <<heap, queue, fatal, calls, error_obj, counter, values, all_promise,
          promises, events, blocked, ops, adopted, gets, reg, threads, lock,
          running>>

(* ------------------------------ values -------------------------------- *)
(* A Python object is a record [k, v]: its kind and its payload.  The kind *)
(* is compared first, so payloads of different kinds are never compared.   *)

None == [k |-> "none", v |-> 0]
Val(n) == [k |-> "val", v |-> n]
Err(s) == [k |-> "err", v |-> s]
Ref(id) == [k |-> "promise", v |-> id]
Fn(f, a) == [k |-> "fn", v |-> [a |-> a, f |-> f]]
List(s) == [k |-> "list", v |-> s]
\* a dict: a function from its keys to the objects stored under them
Dict(d) == [k |-> "dict", v |-> d]
\* the keys of a dict in the order it yields them, as a closure holds them
Keys(s) == [k |-> "keys", v |-> s]

\* an object with a callable done or then attribute: does is what that
\* method does with the (resolve, reject) it is called with, a sequence of
\* calls of resolve, calls of reject, and raises
Thenable(via, does) == [k |-> "thenable", v |-> [via |-> via, does |-> does]]
\* an object with a callable add_done_callback, a finished future: what its
\* exception() and its result() return
Future(exception, result) ==
    [k |-> "future", v |-> [exception |-> exception, result |-> result]]
\* the list `values` that all allocates: the object itself, not its content
ValuesList == [k |-> "values", v |-> 0]
\* where the scheduler's thread stops inside a task (no object of the program)
Paused == [k |-> "paused", v |-> 0]

\* the sentinel try_catch returns: the dictionary _error_obj itself
ErrorObjSentinel == [k |-> "errobj", v |-> 0]
\* a call that never returns (a walk over a cyclic following relation)
NoReturn == [k |-> "noreturn", v |-> 0]

AssertionError == Err("AssertionError")
KeyError == Err("KeyError")

make_self_resolution_error == Err("TypeError: Promise is self")

IsPromise(x) == x.k = "promise"
Callable(x) == x.k = "fn"
IsException(x) == x.k = "err"

\* Python truth of an object, as the `assert not x` lines use it
Truthy(x) ==
    CASE x.k = "none" -> FALSE
      [] x.k = "val" -> x.v # 0
      [] x.k = "list" -> Len(x.v) > 0
      [] x.k = "dict" -> DOMAIN x.v # {}
      \* all allocates its list for one input or more
      [] OTHER -> TRUE

\* Promise.__init__ with no executor (or internal_executor)
NewPromiseRecord ==
    [ state |-> PENDING,
      is_final |-> FALSE,
      is_following |-> FALSE,
      is_async_guaranteed |-> FALSE,
      length |-> 0,
      handlers |-> << >>,
      fulfillment_handler0 |-> None,
      rejection_handler0 |-> None,
      promise0 |-> None,
      trace |-> 0,
      is_waiting |-> FALSE ]

(* ------------------------------ worlds -------------------------------- *)

Raise(w, e) == [w EXCEPT !.exc = e]
Ok(w) == w.exc = None

\* The diagnostic context (context.py) is not part of the source tree.  It
\* is modelled from its interface: a context is a number, 0 standing for no
\* context; the contexts entered and not yet left are a stack; the work
\* queued against a context is the tasks handed to the scheduler while it is
\* the innermost one.

\* Context(): a context that no promise, no queued task and no with block
\* entered refers to
NewContext(w) ==
    LET used == {0} \cup { w.heap[p].trace : p \in DOMAIN w.heap }
                    \cup { w.queue[i].ctx : i \in DOMAIN w.queue }
                    \cup { w.ctx[i] : i \in DOMAIN w.ctx }
    IN  1 + (CHOOSE c \in used : \A d \in used : d <= c)

\* `with Context():` is entered
push_context(w) == [w EXCEPT !.ctx = Append(@, NewContext(w))]
\* the with block is left, by its end or by an exception
pop_context(w) == [w EXCEPT !.ctx = SubSeq(@, 1, Len(@) - 1)]
\* Context.peek_context(): the innermost context, if any
peek_context(w) == IF Len(w.ctx) = 0 THEN 0 ELSE w.ctx[Len(w.ctx)]

SettleTask(p) ==
    [t |-> "settle", self |-> p, promise |-> None, handler |-> None, value |-> None,
     ctx |-> 0]
InvokeTask(p, promise, handler, value) ==
    [t |-> "invoke", self |-> p, promise |-> promise, handler |-> handler, value |-> value,
     ctx |-> 0]

\* async.invoke(task): schedule a task, against the innermost context
async_invoke(w, task) ==
    [w EXCEPT !.queue = Append(@, [task EXCEPT !.ctx = peek_context(w)])]
\* async.settle_promises(promise): schedule the notification of its subscribers
async_settle_promises(w, p) == async_invoke(w, SettleTask(p))
\* async.fatal_error(reason): the terminal sink
async_fatal_error(w, reason) == [w EXCEPT !.fatal = Append(@, reason)]

\* Promise(...): a new pending promise, whose identity lands in w.ret;
\* self._trace = Context.peek_context()
Construct(w) ==
    [w EXCEPT !.heap = Append(@, [NewPromiseRecord EXCEPT !.trace = peek_context(w)]),
              !.ret = Ref(Len(w.heap) + 1)]

(* ------------------------- the callback store ------------------------- *)

Put(d, key, x) == (key :> x) @@ d

\* self._handlers[index * CALLBACK_SIZE - CALLBACK_SIZE + offset] behind the
\* accessor's two assertions; a key the dictionary lacks is a KeyError
HandlersGet(w, p, index, offset) ==
    LET key == index * CALLBACK_SIZE - CALLBACK_SIZE + offset
    IN  IF w.heap[p].is_following \/ ~(index > 0)
        THEN [exc |-> AssertionError, val |-> None]
        ELSE IF key \notin DOMAIN w.heap[p].handlers
        THEN [exc |-> KeyError, val |-> None]
        ELSE [exc |-> None, val |-> w.heap[p].handlers[key]]

promise_at(w, p, index) == HandlersGet(w, p, index, CALLBACK_PROMISE_OFFSET)
fulfillment_handler_at(w, p, index) == HandlersGet(w, p, index, CALLBACK_FULFILL_OFFSET)
rejection_handler_at(w, p, index) == HandlersGet(w, p, index, CALLBACK_REJECT_OFFSET)

clear_callback_data_index_at(w, p, index) ==
    IF w.heap[p].is_following \/ ~(index > 0) THEN Raise(w, AssertionError)
    ELSE LET base == index * CALLBACK_SIZE - CALLBACK_SIZE
         IN  [w EXCEPT !.heap[p].handlers =
                Put(Put(Put(@, base + CALLBACK_PROMISE_OFFSET, None),
                        base + CALLBACK_FULFILL_OFFSET, None),
                    base + CALLBACK_REJECT_OFFSET, None)]

add_callbacks(w, p, fulfill, reject, promise) ==
    IF w.heap[p].is_following THEN Raise(w, AssertionError)
    ELSE
    LET wraps == w.heap[p].length > MAX_LENGTH - CALLBACK_SIZE
        index == IF wraps THEN 0 ELSE w.heap[p].length
        w1 == IF wraps THEN [w EXCEPT !.heap[p].length = 0] ELSE w
        me == w1.heap[p]
    IN  IF index = 0
        THEN IF Truthy(me.promise0) \/ Truthy(me.fulfillment_handler0)
                  \/ Truthy(me.rejection_handler0)
             THEN Raise(w1, AssertionError)
             ELSE [w1 EXCEPT
                     !.heap[p].promise0 = promise,
                     !.heap[p].fulfillment_handler0 =
                         IF Callable(fulfill) THEN fulfill ELSE @,
                     !.heap[p].rejection_handler0 =
                         IF Callable(reject) THEN reject ELSE @,
                     !.heap[p].length = index + 1]
        ELSE LET base == index * CALLBACK_SIZE - CALLBACK_SIZE
                 d0 == me.handlers
             IN  IF \/ (base + CALLBACK_PROMISE_OFFSET) \in DOMAIN d0
                    \/ (base + CALLBACK_FULFILL_OFFSET) \in DOMAIN d0
                    \/ (base + CALLBACK_REJECT_OFFSET) \in DOMAIN d0
                 THEN Raise(w1, AssertionError)
                 ELSE LET d1 == Put(d0, base + CALLBACK_PROMISE_OFFSET, promise)
                          d2 == IF Callable(fulfill)
                                THEN Put(d1, base + CALLBACK_FULFILL_OFFSET, fulfill)
                                ELSE d1
                          d3 == IF Callable(reject)
                                THEN Put(d2, base + CALLBACK_REJECT_OFFSET, reject)
                                ELSE d2
                      IN  [w1 EXCEPT !.heap[p].handlers = d3,
                                     !.heap[p].length = index + 1]

\* promise._migrate_callback0(follower)
migrate_callback0(w, p, follower) ==
    add_callbacks(w, p, w.heap[follower].fulfillment_handler0,
                  w.heap[follower].rejection_handler0, w.heap[follower].promise0)

\* promise._migrate_callback_at(follower, index): the three reads, then the add
migrate_callback_at(w, p, follower, index) ==
    LET f == fulfillment_handler_at(w, follower, index)
        r == rejection_handler_at(w, follower, index)
        d == promise_at(w, follower, index)
    IN  IF f.exc # None THEN Raise(w, f.exc)
        ELSE IF r.exc # None THEN Raise(w, r.exc)
        ELSE IF d.exc # None THEN Raise(w, d.exc)
        ELSE add_callbacks(w, p, f.val, r.val, d.val)

\* for i in range(first, len): promise._migrate_callback_at(self, i)
RECURSIVE MigrateLoop(_, _, _, _, _)
MigrateLoop(w, p, follower, i, len) ==
    IF i >= len \/ ~Ok(w) THEN w
    ELSE MigrateLoop(migrate_callback_at(w, p, follower, i), p, follower, i + 1, len)

(* --------------------------- following chain -------------------------- *)

\* _target: the promise the walk over _followee ends at; 0 when _followee's
\* assertion fails on the way, -1 when the walk never ends
RECURSIVE TargetWalk(_, _, _)
TargetWalk(w, p, fuel) ==
    IF ~w.heap[p].is_following THEN p
    ELSE IF fuel = 0 THEN -1
    ELSE IF ~IsPromise(w.heap[p].rejection_handler0) THEN 0
    ELSE TargetWalk(w, w.heap[p].rejection_handler0.v, fuel - 1)

target(w, p) == TargetWalk(w, p, Len(w.heap))

set_followee(w, p, promise) ==
    IF ~w.heap[p].is_following \/ IsPromise(w.heap[p].rejection_handler0)
    THEN Raise(w, AssertionError)
    ELSE [w EXCEPT !.heap[p].rejection_handler0 = promise]

\* `raise x`: x itself when it is an exception, a TypeError when it is not
raise_object(x) ==
    IF IsException(x) THEN x
    ELSE Err("TypeError: exceptions must derive from BaseException")

\* _settled_value(_raise): what it returns (ret) or raises (exc)
settled_value(w, p, raise) ==
    LET me == w.heap[p]
    IN  IF me.is_following THEN [exc |-> AssertionError, val |-> None]
        ELSE IF me.state = FULFILLED THEN [exc |-> None, val |-> me.rejection_handler0]
        ELSE IF me.state = REJECTED
        THEN IF raise THEN [exc |-> raise_object(me.fulfillment_handler0), val |-> None]
             ELSE [exc |-> None, val |-> me.fulfillment_handler0]
        ELSE [exc |-> None, val |-> None]

(* ---------------------- settlement and resolution --------------------- *)
(* A method that calls another and goes on with what it left is written as *)
(* the call handed to an operator for the rest of the method.              *)

RECURSIVE try_convert_to_promise(_, _)
RECURSIVE resolve_callback(_, _, _)
RECURSIVE reject_callback(_, _, _)
RECURSIVE fulfill(_, _, _)
RECURSIVE reject(_, _, _)
RECURSIVE settle_promises(_, _)
RECURSIVE settle_promise(_, _, _, _, _)
RECURSIVE settle_promise_from_handler(_, _, _, _)
RECURSIVE CallHandler(_, _, _, _)
RECURSIVE NotifyLoop(_, _, _, _, _, _)
RECURSIVE meanwhile(_, _)

\* `return x` at the end of a call that may have raised
Return(w, x) == IF Ok(w) THEN [w EXCEPT !.ret = x] ELSE w

\* a place where the scheduler's thread may stand while other threads run:
\* behind an event.set(), which wakes the thread that waits, and behind the
\* release of the latch's lock.  The thread stops there when it is the place
\* it runs up to; at a place it has stood at before, what the other threads
\* did while it stood there is done before it goes on.
switch_point(w) ==
    IF w.sets + 1 = w.pause THEN [w EXCEPT !.sets = @ + 1, !.exc = Paused]
    ELSE meanwhile([w EXCEPT !.sets = @ + 1], 1)

\* CountdownLatch.dec: the lock makes the test and the decrement one step,
\* and is released as the with block is left, by the return or by the
\* AssertionError
latch_dec(w) ==
    switch_point(IF ~(w.counter > 0) THEN Raise(w, AssertionError)
                 ELSE [w EXCEPT !.counter = @ - 1, !.ret = Val(w.counter - 1)])

\* Promise.reject(reason), the class method, once ret is constructed
class_reject_ret(w, reason) == Return(reject_callback(w, w.ret.v, reason), w.ret)
class_reject(w, reason) == class_reject_ret(Construct(w), reason)

\* event.set()
event_set(w, e) == switch_point([w EXCEPT !.events[e] = TRUE])

\* on_result after event.set(): self._resolve_callback(result)
on_result_resolve(w, self, result) ==
    IF ~Ok(w) THEN w ELSE Return(resolve_callback(w, self, result), None)

\* on_error after event.set(): self._reject_callback(error)
on_error_reject(w, self, error) ==
    IF ~Ok(w) THEN w ELSE Return(reject_callback(w, self, error), None)

\* handle_success's ret after values[original_position] = value: the latch is
\* decremented, and at 0 the aggregate promise is fulfilled with the list
handle_success_dec(w) ==
    IF ~Ok(w) THEN w
    ELSE IF w.ret = Val(0)
    THEN Return(resolve_callback(w, w.all_promise, ValuesList), None)
    ELSE Return(w, None)

\* dict_zip pairing every key with the first value
dict_zip_first(keys, vals) ==
    [key \in { keys[i] : i \in 1..(IF Len(keys) < Len(vals) THEN Len(keys) ELSE Len(vals)) }
        |-> vals[1]]

\* dict_type(zip(keys, vals)): the pairs up to the shorter length, a key that
\* comes again taking the later value
dict_zip(keys, vals) ==
    [key \in { keys[i] : i \in 1..(IF Len(keys) < Len(vals) THEN Len(keys) ELSE Len(vals)) }
        |-> vals[CHOOSE i \in 1..Len(keys) :
                    /\ keys[i] = key /\ i <= Len(vals)
                    /\ \A j \in (i + 1)..Len(keys) : j <= Len(vals) => keys[j] # key]]

\* The body of a handler h applied to value: the world it leaves, with what
\* it returns in ret or what it raises in exc.
HandlerBody(w, h, value) ==
    CASE h.v.f = "ret" -> [w EXCEPT !.ret = h.v.a]
      [] h.v.f = "raise" -> Raise(w, h.v.a)
      \* _wait's on_result: event.set(); self._resolve_callback(result)
      [] h.v.f = "on_result" ->
            on_result_resolve(event_set(w, h.v.a.v[2]), h.v.a.v[1], value)
      \* _wait's on_error: event.set(); self._reject_callback(error)
      [] h.v.f = "on_error" ->
            on_error_reject(event_set(w, h.v.a.v[2]), h.v.a.v[1], value)
      \* all's handle_success(original_position)
      [] h.v.f = "handle_success" ->
            handle_success_dec(latch_dec([w EXCEPT !.values[h.v.a.v + 1] = value]))
      \* all_promise.reject: the attribute is the class method Promise.reject
      [] h.v.f = "Promise.reject" -> class_reject(w, value)
      \* for_dict's handle_success: dict_type(zip(m.keys(), resolved_values))
      [] h.v.f = "for_dict.handle_success" ->
            IF value.k = "list" THEN [w EXCEPT !.ret = Dict(dict_zip(h.v.a.v, value.v))]
            ELSE IF value = ValuesList
            THEN [w EXCEPT !.ret = Dict(dict_zip(h.v.a.v, w.values))]
            ELSE Raise(w, Err("TypeError: zip argument is not iterable"))
      [] OTHER -> Raise(w, Err("TypeError: not callable"))

\* the history of calls: the handler, its argument, the dependent promise it
\* was registered with, and what it returned or raised
LogCall(w, h, value, dep) ==
    IF w.exc = Paused THEN w
    ELSE [w EXCEPT !.calls = Append(@,
            [h |-> h, arg |-> value, dep |-> dep, raised |-> ~Ok(w),
             out |-> IF Ok(w) THEN w.ret ELSE w.exc])]

\* handler(value)
CallHandler(w, h, value, dep) == LogCall(HandlerBody(w, h, value), h, value, dep)

\* try_catch's except clause: an Exception lands in the shared cell, and the
\* cell itself is what comes back
Catch(w) ==
    IF IsException(w.exc)
    THEN [w EXCEPT !.error_obj = w.exc, !.exc = None, !.ret = ErrorObjSentinel]
    ELSE w

try_catch(w, h, value, dep) == Catch(CallHandler(w, h, value, dep))

\* _fulfill after the state and the value are stored
fulfill_notify(w, p) ==
    IF w.heap[p].length > 0
    THEN IF w.heap[p].is_async_guaranteed
         THEN settle_promises(w, p)
         ELSE async_settle_promises(w, p)
    ELSE w

fulfill(w, p, value) ==
    IF value = Ref(p) THEN reject(w, p, make_self_resolution_error)
    ELSE fulfill_notify([w EXCEPT !.heap[p].state = FULFILLED,
                                  !.heap[p].rejection_handler0 = value], p)

\* _reject's last statement
reject_settle(w, p) ==
    IF w.heap[p].is_async_guaranteed
    THEN settle_promises(w, p)
    ELSE async_settle_promises(w, p)

\* _reject after the state and the reason are stored
\* (_ensure_possible_rejection_handled is a no-op)
reject_notify(w, p, reason) ==
    IF w.heap[p].is_final
    THEN IF w.heap[p].length # 0 THEN Raise(w, AssertionError)
         ELSE async_fatal_error(w, reason)
    ELSE reject_settle(IF w.heap[p].length > 0 THEN async_settle_promises(w, p) ELSE w, p)

reject(w, p, reason) ==
    reject_notify([w EXCEPT !.heap[p].state = REJECTED,
                            !.heap[p].fulfillment_handler0 = reason], p, reason)

reject_callback(w, p, reason) ==
    IF ~IsException(reason) THEN Raise(w, AssertionError)
    ELSE reject(w, p, reason)

\* _resolve_callback's pending branch, after the subscribers have migrated
follow(w, p, t) ==
    IF ~Ok(w) THEN w
    ELSE set_followee([w EXCEPT !.heap[p].is_following = TRUE,
                                !.heap[p].length = 0], p, Ref(t))

\* resolve_with_target without the comparison of the target with self
resolve_with_target_unchecked(w, p, t) ==
    IF t = 0 THEN Raise(w, AssertionError)
    ELSE IF t = -1 THEN Raise(w, NoReturn)
    ELSE IF w.heap[t].state = PENDING
    THEN follow(MigrateLoop(IF w.heap[p].length > 0 THEN migrate_callback0(w, t, p) ELSE w,
                            t, p, 1, w.heap[p].length),
                p, t)
    ELSE IF w.heap[t].state = FULFILLED
    THEN fulfill(w, p, settled_value(w, t, FALSE).val)
    ELSE reject(w, p, settled_value(w, t, FALSE).val)

\* _resolve_callback once promise = maybe_promise._target() is known
resolve_with_target(w, p, t) ==
    IF t = 0 THEN Raise(w, AssertionError)
    ELSE IF t = -1 THEN Raise(w, NoReturn)
    ELSE IF t = p THEN reject(w, p, make_self_resolution_error)
    ELSE IF w.heap[t].state = PENDING
    THEN follow(MigrateLoop(IF w.heap[p].length > 0 THEN migrate_callback0(w, t, p) ELSE w,
                            t, p, 1, w.heap[p].length),
                p, t)
    ELSE IF w.heap[t].state = FULFILLED
    THEN fulfill(w, p, settled_value(w, t, FALSE).val)
    ELSE reject(w, p, settled_value(w, t, FALSE).val)

\* _resolve_callback once maybe_promise = _try_convert_to_promise(value) is
\* in ret
resolve_converted(w, p, value) ==
    IF ~Ok(w) THEN w
    ELSE IF ~IsPromise(w.ret) THEN fulfill(w, p, value)
    ELSE resolve_with_target(w, p, target(w, w.ret.v))

resolve_callback(w, p, value) ==
    IF value = Ref(p) THEN reject_callback(w, p, make_self_resolution_error)
    ELSE resolve_converted(try_convert_to_promise(w, value), p, value)

\* x == _error_obj: x is the cell itself, or a dict equal to it, one whose
\* only key is 'e' with the object the cell holds
equals_error_obj(x, cell) ==
    \/ x = ErrorObjSentinel
    \/ /\ x.k = "dict"
       /\ DOMAIN x.v = {"e"}
       /\ x.v["e"] = cell

\* x['e'], x being equal to _error_obj
error_of(x, cell) == IF x = ErrorObjSentinel THEN cell ELSE x.v["e"]

\* _settle_promise_from_handler after x = try_catch(handler, value)
settle_from_result(w, promise) ==
    IF ~Ok(w) THEN w
    ELSE IF equals_error_obj(w.ret, w.error_obj)
    THEN reject_callback(w, promise, error_of(w.ret, w.error_obj))
    ELSE resolve_callback(w, promise, w.ret)

\* with Context(): x = try_catch(handler, value)
try_catch_in_context(w, h, value, dep) ==
    pop_context(try_catch(push_context(w), h, value, dep))

settle_promise_from_handler(w, handler, value, promise) ==
    settle_from_result(try_catch_in_context(w, handler, value, promise), promise)

\* promise._is_async_guaranteed = True, if self is
propagate_async_guaranteed(w, p, promise) ==
    IF w.heap[p].is_async_guaranteed
    THEN [w EXCEPT !.heap[promise].is_async_guaranteed = TRUE]
    ELSE w

settle_promise(w, p, promise, handler, value) ==
    IF w.heap[p].is_following THEN Raise(w, AssertionError)
    ELSE IF Callable(handler)
    THEN IF ~IsPromise(promise)
         THEN CallHandler(w, handler, value, 0)
         ELSE settle_promise_from_handler(propagate_async_guaranteed(w, p, promise.v),
                                          handler, value, promise.v)
    ELSE IF IsPromise(promise)
    THEN IF w.heap[p].state = FULFILLED
         THEN fulfill(propagate_async_guaranteed(w, p, promise.v), promise.v, value)
         ELSE reject(propagate_async_guaranteed(w, p, promise.v), promise.v, value)
    ELSE w

settle_promise0(w, p, handler, value) ==
    settle_promise([w EXCEPT !.heap[p].promise0 = None],
                   p, w.heap[p].promise0, handler, value)

\* one round of _fulfill_promises / _reject_promises once the handler and the
\* promise at i are read: the slot is cleared, then the subscriber is settled
notify_at(w, p, promise, handler, value) ==
    IF ~Ok(w) THEN w ELSE settle_promise(w, p, promise, handler, value)

\* _fulfill_promises (offset CALLBACK_FULFILL_OFFSET) and _reject_promises
\* (offset CALLBACK_REJECT_OFFSET): for i in range(i, length)
NotifyLoop(w, p, offset, i, length, value) ==
    IF i >= length \/ ~Ok(w) THEN w
    ELSE IF HandlersGet(w, p, i, offset).exc # None
    THEN Raise(w, HandlersGet(w, p, i, offset).exc)
    ELSE IF promise_at(w, p, i).exc # None
    THEN Raise(w, promise_at(w, p, i).exc)
    ELSE NotifyLoop(notify_at(clear_callback_data_index_at(w, p, i), p,
                              promise_at(w, p, i).val,
                              HandlersGet(w, p, i, offset).val, value),
                    p, offset, i + 1, length, value)

fulfill_promises(w, p, length, value) ==
    NotifyLoop(w, p, CALLBACK_FULFILL_OFFSET, 1, length, value)

reject_promises(w, p, length, reason) ==
    NotifyLoop(w, p, CALLBACK_REJECT_OFFSET, 1, length, reason)

\* _settle_promises' last statement, reached unless a subscriber raised
settle_done(w, p) == IF Ok(w) THEN [w EXCEPT !.heap[p].length = 0] ELSE w

settle_promises(w, p) ==
    IF w.heap[p].length > 0
    THEN IF w.heap[p].state = REJECTED
         THEN settle_done(
                reject_promises(
                  settle_promise0(w, p, w.heap[p].rejection_handler0,
                                  w.heap[p].fulfillment_handler0),
                  p, w.heap[p].length, w.heap[p].fulfillment_handler0),
                p)
         ELSE settle_done(
                fulfill_promises(
                  settle_promise0(w, p, w.heap[p].fulfillment_handler0,
                                  w.heap[p].rejection_handler0),
                  p, w.heap[p].length, w.heap[p].rejection_handler0),
                p)
    ELSE w

\* then_target reading the settled value from the other slot
then_target_other_slot(w, p, t, did_fulfill, did_reject) ==
    IF t = 0 THEN Raise(w, AssertionError)
    ELSE IF t = -1 THEN Raise(w, NoReturn)
    ELSE IF w.heap[t].state # PENDING
    THEN async_invoke(w, InvokeTask(p, w.ret,
            IF w.heap[t].state = FULFILLED THEN did_fulfill ELSE did_reject,
            IF w.heap[t].state = FULFILLED
            THEN w.heap[t].fulfillment_handler0
            ELSE w.heap[t].rejection_handler0))
    ELSE Return(add_callbacks(w, t, did_fulfill, did_reject, w.ret), w.ret)

\* _then once promise is constructed (it is w.ret) and target = self._target()
then_target(w, p, t, did_fulfill, did_reject) ==
    IF t = 0 THEN Raise(w, AssertionError)
    ELSE IF t = -1 THEN Raise(w, NoReturn)
    ELSE IF w.heap[t].state # PENDING
    THEN async_invoke(w, InvokeTask(p, w.ret,
            IF w.heap[t].state = FULFILLED THEN did_fulfill ELSE did_reject,
            IF w.heap[t].state = FULFILLED
            THEN w.heap[t].rejection_handler0
            ELSE w.heap[t].fulfillment_handler0))
    ELSE Return(add_callbacks(w, t, did_fulfill, did_reject, w.ret), w.ret)

then_constructed(w, p, did_fulfill, did_reject) ==
    then_target(w, p, target(w, p), did_fulfill, did_reject)

\* _then(did_fulfill, did_reject): the dependent promise lands in ret
then_(w, p, did_fulfill, did_reject) ==
    then_constructed(Construct(w), p, did_fulfill, did_reject)

\* done after promise = self._then(...)
set_final(w) ==
    IF Ok(w) THEN [w EXCEPT !.heap[w.ret.v].is_final = TRUE, !.ret = None] ELSE w

\* done(did_fulfill, did_reject)
done(w, p, did_fulfill, did_reject) == set_final(then_(w, p, did_fulfill, did_reject))

(* ----------------------------- executors ----------------------------- *)
(* An executor is the sequence of what it does with its two callbacks: it  *)
(* calls resolve(value), calls reject(reason), or raises.                  *)

\* one statement of executor(resolve, reject); resolve and reject are the
\* closures over self._resolve_callback and self._reject_callback
executor_step(w, p, st) ==
    CASE st[1] = "resolve" -> resolve_callback(w, p, st[2])
      [] st[1] = "reject" -> reject_callback(w, p, st[2])
      [] OTHER -> Raise(w, st[2])

RECURSIVE RunExecutor(_, _, _, _)
RunExecutor(w, p, executor, i) ==
    IF i > Len(executor) \/ ~Ok(w) THEN w
    ELSE RunExecutor(executor_step(w, p, executor[i]), p, executor, i + 1)

\* _resolve_from_executor after the try statement: an Exception the executor
\* let out is the reason the promise is rejected with
executor_error(w, p) ==
    IF IsException(w.exc) THEN reject_callback([w EXCEPT !.exc = None], p, w.exc)
    ELSE w

\* with Context(): try: executor(resolve, reject)
resolve_from_executor(w, p, executor) ==
    executor_error(pop_context(RunExecutor(push_context(w), p, executor, 1)), p)

\* Promise(executor) once the fields are initialised (the promise is w.ret)
construct_with(w, executor) == Return(resolve_from_executor(w, w.ret.v, executor), w.ret)

\* _process_future_result(resolve, reject)(future) as an executor
process_future_result(future) ==
    IF Truthy(future.v.exception) THEN << <<"reject", future.v.exception>> >>
    ELSE << <<"resolve", future.v.result>> >>

\* the executor _try_convert_to_promise hands to cls(executor): for a future
\* the one that runs _process_future_result(resolve, reject)(obj), for an
\* object with a done or a then the one that calls it with resolve and reject
converting_executor(obj) ==
    IF obj.k = "future" THEN process_future_result(obj) ELSE obj.v.does

\* _try_convert_to_promise(obj), what it returns landing in ret: a promise
\* comes back as it is; a future, and an object with a done or a then, in a
\* new promise whose executor hands it resolve and reject; any other object
\* as it is.  (promise._future is not read by any method modelled here; a
\* coroutine goes through ensure_future, which is not in the source tree.)
try_convert_to_promise(w, obj) ==
    IF IsPromise(obj) THEN [w EXCEPT !.ret = obj]
    ELSE IF obj.k \in {"future", "thenable"}
    THEN construct_with(Construct(w), converting_executor(obj))
    ELSE [w EXCEPT !.ret = obj]

(* ------------------------------- all ---------------------------------- *)

\* Promise.resolve(obj) once ret = _try_convert_to_promise(obj): a promise
\* comes back as it is, any other object in a new promise that is already
\* Fulfilled with it
class_resolve_converted(w, obj) ==
    IF ~Ok(w) \/ IsPromise(w.ret) THEN w
    ELSE [w EXCEPT !.heap = Append(@, [NewPromiseRecord EXCEPT
                                          !.trace = peek_context(w),
                                          !.state = FULFILLED,
                                          !.rejection_handler0 = obj]),
                   !.ret = Ref(Len(w.heap) + 1)]

\* Promise.resolve(obj), the class method (all calls it for every input, by
\* either name, promisify or resolve)
class_resolve(w, obj) == class_resolve_converted(try_convert_to_promise(w, obj), obj)

\* all_done registering every input's success handler for position 0
all_done_position0(w, i) ==
    IF ~Ok(w) THEN w
    ELSE done([w EXCEPT !.promises = Append(@, w.ret.v)], w.ret.v,
              Fn("handle_success", Val(0)), Fn("Promise.reject", None))

\* the body of all's loop, p being the promise in ret:
\* p.done(handle_success(i), all_promise.reject)
all_done(w, i) ==
    IF ~Ok(w) THEN w
    ELSE done([w EXCEPT !.promises = Append(@, w.ret.v)], w.ret.v,
              Fn("handle_success", Val(i)), Fn("Promise.reject", None))

\* for i, p in enumerate(promises), the generator resolving one input a round
RECURSIVE AllLoop(_, _, _)
AllLoop(w, inputs, i) ==
    IF i >= Len(inputs) \/ ~Ok(w) THEN w
    ELSE AllLoop(all_done(class_resolve(w, inputs[i + 1]), i), inputs, i + 1)

\* all once all_promise = cls() is constructed (it is w.ret)
all_constructed(w, inputs) ==
    Return(AllLoop([w EXCEPT !.all_promise = w.ret.v,
                             !.counter = Len(inputs),
                             !.values = [i \in 1..Len(inputs) |-> None]],
                   inputs, 0),
           w.ret)

\* Promise.all(values_or_promises)
all(w, inputs) ==
    IF Len(inputs) = 0 THEN class_resolve(w, List(inputs))
    ELSE all_constructed(Construct(w), inputs)

(* ----------------------------- for_dict ------------------------------- *)
(* A mapping is the sequence of its (key, value) items in the order the    *)
(* dict yields them.                                                       *)

MappingKeys(m) == [i \in DOMAIN m |-> m[i][1]]
MappingValues(m) == [i \in DOMAIN m |-> m[i][2]]

\* for_dict after cls.all(m.values()) has returned: .then(handle_success)
for_dict_then(w, keys) ==
    IF ~Ok(w) THEN w
    ELSE then_(w, w.ret.v, Fn("for_dict.handle_success", Keys(keys)), None)

\* Promise.for_dict(m)
for_dict(w, m) ==
    IF Len(m) = 0 THEN class_resolve(w, Dict(<< >>))
    ELSE for_dict_then(all(w, MappingValues(m)), MappingKeys(m))

(* ------------------------------- get ---------------------------------- *)

\* The scheduler runs a task: a promise's _settle_promises, or the partial
\* that _then scheduled.
RunTask(w, task) ==
    IF task.t = "settle" THEN settle_promises(w, task.self)
    ELSE settle_promise(w, task.self, task.promise, task.handler, task.value)

\* the queue without its i-th task
Without(q, i) == SubSeq(q, 1, i - 1) \o SubSeq(q, i + 1, Len(q))

\* self._trace.drain_queue(): the tasks queued against the context c are
\* run, in the order they were queued
RECURSIVE drain_queue(_, _)
drain_queue(w, c) ==
    LET against == { i \in DOMAIN w.queue : w.queue[i].ctx = c }
        first == CHOOSE i \in against : \A j \in against : i <= j
    IN  IF ~Ok(w) \/ against = {} THEN w
        ELSE drain_queue(RunTask([w EXCEPT !.queue = Without(@, first)], w.queue[first]), c)

\* _wait after target._then(on_result, on_error): `if self._trace:`
wait_drain(w, p) ==
    IF Ok(w) /\ w.heap[p].trace # 0 THEN drain_queue(w, w.heap[p].trace) ELSE w

\* what on_result and on_error close over: self and the Event
WaitCell(p, e) == [k |-> "wait", v |-> <<p, e>>]

\* _wait after the drain: self._is_waiting = True
wait_subscribed(w, p) ==
    IF Ok(w) THEN [w EXCEPT !.heap[p].is_waiting = TRUE] ELSE w

\* _wait up to event.wait(timeout), t being self._target(): whether it goes
\* on to wait is whether it made an Event
wait_begin(w, p, t) ==
    IF t = 0 THEN Raise(w, AssertionError)
    ELSE IF t = -1 THEN Raise(w, NoReturn)
    ELSE IF w.heap[p].state = PENDING /\ ~w.heap[p].is_waiting
    THEN wait_subscribed(
            wait_drain(
                then_([w EXCEPT !.events = Append(@, FALSE),
                                !.heap[p].is_following = FALSE],
                      t,
                      Fn("on_result", WaitCell(p, Len(w.events) + 1)),
                      Fn("on_error", WaitCell(p, Len(w.events) + 1))),
                p),
            p)
    ELSE w

\* _wait after event.wait(timeout) has returned waited
wait_end(w, p, waited) ==
    IF waited THEN w ELSE [w EXCEPT !.heap[p].is_waiting = FALSE]

\* get's last statement: return self._settled_value(_raise=True)
get_return(w, p) ==
    IF settled_value(w, p, TRUE).exc # None
    THEN Raise(w, settled_value(w, p, TRUE).exc)
    ELSE [w EXCEPT !.ret = settled_value(w, p, TRUE).val]

\* what a thread that is not the scheduler's does in a call c while the
\* scheduler's thread stands inside a task: _wait up to event.wait(timeout),
\* or _wait from an event.wait(timeout) that returned False
other_call(w, c) ==
    IF c.op = "wait_begin" THEN wait_begin(w, c.p, target(w, c.p))
    ELSE wait_end(w, c.p, FALSE)

\* the call c of another thread, made in w: the thread has its own stack of
\* contexts, its own return value and its own exception
other_thread(w, c) ==
    [other_call([w EXCEPT !.exc = None, !.ret = None, !.ctx = << >>,
                          !.sets = 0, !.pause = 0, !.others = << >>], c)
        EXCEPT !.exc = w.exc, !.ret = w.ret, !.ctx = w.ctx,
               !.sets = w.sets, !.pause = w.pause, !.others = w.others]

\* the calls other threads made while the scheduler's thread stood at the
\* place it has just passed, from the i-th on, in the order they were made
meanwhile(w, i) ==
    IF i > Len(w.others) THEN w
    ELSE meanwhile(IF w.others[i].at = w.sets THEN other_thread(w, w.others[i]) ELSE w,
                   i + 1)

(* ------------------------------- state -------------------------------- *)

NotBlocked == [p |-> 0, event |-> 0, timeout |-> FALSE, target |-> 0]

\* the scheduler's thread is inside no task
NotRunning == [n |-> 0, task |-> None, w |-> None, others |-> << >>]
\* the scheduler's thread is between two tasks.  The thread that settles and
\* subscribes is the one that runs the scheduler, so it makes no such call
\* while it stands inside a task; the thread that calls get is another, and
\* begins a get, wakes or times out at any time.
Idle == running.n = 0

\* running, with the call another thread makes on p while the scheduler's
\* thread stands inside a task
Stood(op, p) ==
    IF Idle THEN running
    ELSE [running EXCEPT !.others = Append(@, [at |-> running.n, op |-> op, p |-> p])]

\* the world the variables hold, with no exception in flight
World ==
    [ heap |-> heap, queue |-> queue, fatal |-> fatal, calls |-> calls,
      error_obj |-> error_obj, counter |-> counter, values |-> values,
      all_promise |-> all_promise, promises |-> promises, events |-> events,
      exc |-> None, ret |-> None,
      \* no context entered
      ctx |-> << >>,
      \* the places where the thread may stand that the step has passed so
      \* far, and the one it runs up to (0: it runs to its end)
      sets |-> 0, pause |-> 0,
      \* what other threads did at the places it has stood at
      others |-> << >> ]

Commit(w) ==
    /\ heap' = w.heap
    /\ queue' = w.queue
    /\ fatal' = w.fatal
    /\ calls' = w.calls
    /\ error_obj' = w.error_obj
    /\ counter' = w.counter
    /\ values' = w.values
    /\ all_promise' = w.all_promise
    /\ promises' = w.promises
    /\ events' = w.events

Init ==
    /\ heap = << >>
    /\ queue = << >>
    /\ fatal = << >>
    /\ calls = << >>
    /\ error_obj = None
    /\ counter = -1
    /\ values = << >>
    /\ all_promise = 0
    /\ promises = << >>
    /\ events = << >>
    /\ blocked = NotBlocked
    /\ ops = 0
    /\ adopted = << >>
    /\ gets = << >>
    /\ reg = << >>
    /\ threads = << >>
    /\ lock = 0
    /\ running = NotRunning

(* --------------------------- what clients pass ------------------------ *)

PlainValues == { Val(1), Val(2) }
Reasons == { Err("e1") }
\* a handler that returns 0, and one that raises
Returns == Fn("ret", Val(0))
Raises == Fn("raise", Err("boom"))
\* the (did_fulfill, did_reject) pairs passed to then
HandlerPairs ==
    { <<None, None>>, <<Returns, None>>, <<Raises, None>>,
      <<None, Returns>>, <<None, Raises>>, <<Returns, Returns>> }
Promises == { Ref(q) : q \in DOMAIN heap }

(* ------------------------------ actions ------------------------------- *)

Forget(d, key) == [k \in DOMAIN d \ {key} |-> d[k]]

\* p = Promise()
NewPromise ==
    /\ Idle
    /\ Len(heap) < MaxPromises
    /\ Commit(Construct(World))
    /\ UNCHANGED <<running, blocked, ops, adopted, gets, reg, threads, lock>>

\* p.do_resolve(value), p.fulfill(value), or the executor's resolve(value)
DoResolve(p, value) ==
    /\ Idle
    /\ ops < MaxOps
    /\ ops' = ops + 1
    /\ Commit(resolve_callback(World, p, value))
    /\ adopted' = IF IsPromise(value) /\ value.v # p /\ heap[value.v].state = PENDING
                  THEN Put(adopted, p, value.v)
                  ELSE Forget(adopted, p)
    /\ UNCHANGED <<running, blocked, gets, reg, threads, lock>>

\* p.do_reject(reason), or the executor's reject(reason)
DoReject(p, reason) ==
    /\ Idle
    /\ ops < MaxOps
    /\ ops' = ops + 1
    /\ Commit(reject_callback(World, p, reason))
    /\ adopted' = Forget(adopted, p)
    /\ UNCHANGED <<running, blocked, gets, reg, threads, lock>>

\* what a then call registered: the promise it was called on, the handlers,
\* and that promise's state, length and stored value at the call
Registration(p, f, r) ==
    [ on |-> p, f |-> f, r |-> r,
      state |-> heap[p].state,
      length |-> heap[p].length,
      following |-> heap[p].is_following,
      value |-> IF heap[p].state = REJECTED THEN heap[p].fulfillment_handler0
                ELSE heap[p].rejection_handler0 ]

\* p.then(did_fulfill, did_reject)
Subscribe(p, f, r) ==
    /\ Idle
    /\ ops < MaxOps
    /\ ops' = ops + 1
    /\ Commit(then_(World, p, f, r))
    /\ reg' = Put(reg, Len(heap) + 1, Registration(p, f, r))
    /\ UNCHANGED <<running, blocked, adopted, gets, threads, lock>>

Then(p, f, r) == Len(heap) < MaxPromises /\ Subscribe(p, f, r)

\* the task w.queue's head, run from w up to the n-th place in it where the
\* thread may stand
RunHead(w, n) == RunTask([w EXCEPT !.queue = Tail(@), !.pause = n], Head(w.queue))

\* the scheduler's thread has run a task as far as w: standing inside it,
\* it keeps what it needs to go on from there
Ran(w, stopped) ==
    /\ Commit(w)
    /\ running' = IF w.exc = Paused THEN stopped ELSE NotRunning

\* The scheduler's thread takes the task at the head of its queue and runs
\* it, to its end or to the first place in it where it may stand.
Drain ==
    /\ Len(queue) > 0
    /\ Idle
    /\ Ran(RunHead(World, 1),
           [n |-> 1, task |-> Head(queue), w |-> World, others |-> << >>])
    /\ UNCHANGED <<blocked, ops, adopted, gets, reg, threads, lock>>

\* The scheduler's thread goes on from the place it stands at, to the end of
\* the task or to the next such place in it: the task is run from the world
\* it began in, with what the other threads did at each place it stood at.
DrainOn ==
    /\ ~Idle
    /\ Ran(RunHead([running.w EXCEPT !.others = running.others], running.n + 1),
           [running EXCEPT !.n = @ + 1])
    /\ UNCHANGED <<blocked, ops, adopted, gets, reg, threads, lock>>

Next ==
    \/ NewPromise
    \/ \E p \in DOMAIN heap : \E value \in PlainValues \cup Promises : DoResolve(p, value)
    \/ \E p \in DOMAIN heap : \E reason \in Reasons : DoReject(p, reason)
    \/ \E p \in DOMAIN heap : \E h \in HandlerPairs : Then(p, h[1], h[2])
    \/ Drain

Spec == Init /\ [][Next]_vars

(* ------------------- all and the settling of its inputs --------------- *)

\* an input promise of all: one the client constructed before the call
NewInput ==
    /\ Idle
    /\ all_promise = 0
    /\ Len(heap) < MaxInputs
    /\ Commit(Construct(World))
    /\ UNCHANGED <<running, blocked, ops, adopted, gets, reg, threads, lock>>

\* the lists passed to all: promises and plain values
InputLists == UNION { [1..n -> Promises \cup PlainValues] : n \in 1..MaxInputs }

\* all_promise = Promise.all(inputs)
AllCall(inputs) ==
    /\ Idle
    /\ all_promise = 0
    /\ Commit(all(World, inputs))
    /\ UNCHANGED <<running, blocked, ops, adopted, gets, reg, threads, lock>>

\* the promises the client made, each of which it settles once
ClientPending ==
    { p \in DOMAIN heap : heap[p].state = PENDING /\ (all_promise = 0 \/ p < all_promise) }

NextAll ==
    \/ NewInput
    \/ \E inputs \in InputLists : AllCall(inputs)
    \/ \E p \in ClientPending : \E value \in PlainValues : DoResolve(p, value)
    \/ \E p \in ClientPending : \E reason \in Reasons : DoReject(p, reason)
    \/ Drain
    \/ DrainOn

SpecAll == Init /\ [][NextAll]_vars

(* ------------------------ done and final promises -------------------- *)

\* the promises a client holds: done returns None, so not the final ones
Visible == { p \in DOMAIN heap : ~heap[p].is_final }

\* the handlers passed to then before a done
ChainHandlerPairs == { <<None, None>>, <<Returns, None>>, <<Raises, None>> }

\* the handlers passed to done: none, one that returns, one that raises, the
\* class method Promise.reject, and one that returns a promise the client holds
DoneHandlerPairs ==
    { <<None, None>>, <<Returns, None>>, <<Raises, None>>, <<None, Raises>>,
      <<None, Fn("Promise.reject", None)>> }
    \cup { <<Fn("ret", Ref(q)), Fn("ret", Ref(q))>> : q \in Visible }

\* p.done(did_fulfill, did_reject); it makes a promise, which bounds it
DoneCall(p, f, r) ==
    /\ Idle
    /\ Len(heap) < MaxPromises
    /\ Commit(done(World, p, f, r))
    /\ reg' = Put(reg, Len(heap) + 1, Registration(p, f, r))
    /\ UNCHANGED <<running, blocked, ops, adopted, gets, threads, lock>>

NextDone ==
    \/ NewPromise
    \/ \E p \in Visible : \E value \in PlainValues \cup { Ref(q) : q \in Visible } :
            DoResolve(p, value)
    \/ \E p \in Visible : \E reason \in Reasons : DoReject(p, reason)
    \/ \E p \in Visible : \E h \in ChainHandlerPairs : Then(p, h[1], h[2])
    \/ \E p \in Visible : \E h \in DoneHandlerPairs : DoneCall(p, h[1], h[2])
    \/ Drain

SpecDone == Init /\ [][NextDone]_vars

(* ---------------- rejecting with errors and with other values -------- *)

\* what reject calls are given: an error, or a value that is not one
RejectArgs == Reasons \cup { Val(1) }

\* the objects with a then, a done or an add_done_callback that resolve calls
\* are given: one whose then keeps the callbacks and calls neither, one whose
\* then calls reject with a value that is no error, one whose done calls
\* resolve, and a future that finished with an exception
Thenables ==
    { Thenable("then", << >>), Thenable("then", << <<"reject", Val(1)>> >>),
      Thenable("done", << <<"resolve", Val(1)>> >>),
      Future(Err("e1"), None) }

ExecutorSteps ==
    { <<"resolve", v>> : v \in PlainValues \cup { Thenable("then", << <<"reject", Val(1)>> >>) } }
    \cup { <<"reject", r>> : r \in RejectArgs }
    \cup { <<"raise", Err("boom")>> }

\* the executors: one or two statements
Executors == UNION { [1..n -> ExecutorSteps] : n \in 1..2 }

\* p = Promise(executor)
NewFromExecutor(executor) ==
    /\ Idle
    /\ Len(heap) < MaxPromises
    /\ ops < MaxOps
    /\ ops' = ops + 1
    /\ Commit(construct_with(Construct(World), executor))
    /\ UNCHANGED <<running, blocked, adopted, gets, reg, threads, lock>>

\* Promise.reject(reason), the class method
ClassReject(reason) ==
    /\ Idle
    /\ Len(heap) < MaxPromises
    /\ ops < MaxOps
    /\ ops' = ops + 1
    /\ Commit(class_reject(World, reason))
    /\ UNCHANGED <<running, blocked, adopted, gets, reg, threads, lock>>

NextReject ==
    \/ NewPromise
    \/ \E executor \in Executors : NewFromExecutor(executor)
    \/ \E reason \in RejectArgs : ClassReject(reason)
    \/ \E p \in DOMAIN heap : \E value \in PlainValues \cup Thenables : DoResolve(p, value)
    \/ \E p \in DOMAIN heap : \E reason \in RejectArgs : DoReject(p, reason)
    \/ \E p \in DOMAIN heap : \E h \in ChainHandlerPairs : Then(p, h[1], h[2])
    \/ Drain

SpecReject == Init /\ [][NextReject]_vars

(* --------------- for_dict and the settling of its values -------------- *)

DictKeys == { "a", "b" }

\* the mappings passed to for_dict: no key or more, in either order, each
\* with a promise or a plain value
Mappings ==
    { m \in UNION { [1..n -> DictKeys \X (Promises \cup PlainValues)] : n \in 0..MaxInputs } :
        \A i \in DOMAIN m : \A j \in DOMAIN m : i # j => m[i][1] # m[j][1] }

\* for_dict(m) has returned in w
ForDictCalled(w, m) ==
    /\ Commit(w)
    /\ reg' = IF Len(m) = 0 THEN reg
              ELSE Put(reg, w.ret.v,
                       [ on |-> w.all_promise,
                         f |-> Fn("for_dict.handle_success", Keys(MappingKeys(m))),
                         r |-> None, state |-> PENDING, length |-> 0,
                         following |-> FALSE, value |-> None ])

\* d = Promise.for_dict(m); the history keeps what its then registered, which
\* is nothing when m is empty
ForDictCall(m) ==
    /\ Idle
    /\ all_promise = 0
    /\ Len(heap) < MaxPromises
    /\ ForDictCalled(for_dict(World, m), m)
    /\ UNCHANGED <<running, blocked, ops, adopted, gets, threads, lock>>

NextDict ==
    \/ NewInput
    \/ \E m \in Mappings : ForDictCall(m)
    \/ \E p \in ClientPending : \E value \in PlainValues : DoResolve(p, value)
    \/ \E p \in ClientPending : \E reason \in Reasons : DoReject(p, reason)
    \/ Drain
    \/ DrainOn

SpecDict == Init /\ [][NextDict]_vars

(* ------------------------ get and its waiting ------------------------- *)

\* what a get call gave back: the value it returned or the error it raised
GetRecord(w, p, timed_out) ==
    [p |-> p, timed_out |-> timed_out, exc |-> w.exc, val |-> w.ret]

\* _wait has run as far as w: it made an Event and get waits on it, or it
\* made none and get returns or raises
GetBegun(w, p, timed) ==
    /\ Commit(w)
    /\ IF Ok(w) /\ Len(w.events) > Len(events)
       THEN /\ blocked' = [p |-> p, event |-> Len(events) + 1, timeout |-> timed,
                            target |-> target(World, p)]
            /\ gets' = gets
            /\ reg' = Put(reg, Len(heap) + 1,
                          Registration(target(World, p),
                                       Fn("on_result", WaitCell(p, Len(events) + 1)),
                                       Fn("on_error", WaitCell(p, Len(events) + 1))))
       ELSE /\ blocked' = blocked
            /\ reg' = reg
            /\ gets' = Append(gets,
                  GetRecord(IF Ok(w) THEN get_return(w, p) ELSE w, p, FALSE))

\* p.get(wait=True, timeout): up to event.wait when _wait made an Event, to
\* get's return when it did not
GetBegin(p, timed) ==
    /\ blocked = NotBlocked
    /\ Len(heap) < MaxPromises
    /\ ops < MaxOps
    /\ ops' = ops + 1
    /\ GetBegun(wait_begin(World, p, target(World, p)), p, timed)
    /\ running' = Stood("wait_begin", p)
    /\ UNCHANGED <<adopted, threads, lock>>

\* event.wait returns True: the Event was set
GetWake ==
    /\ blocked # NotBlocked
    /\ events[blocked.event]
    /\ Commit(wait_end(World, blocked.p, TRUE))
    /\ gets' = Append(gets, GetRecord(get_return(wait_end(World, blocked.p, TRUE),
                                                  blocked.p),
                                       blocked.p, FALSE))
    /\ blocked' = NotBlocked
    /\ UNCHANGED <<running, ops, adopted, reg, threads, lock>>

\* event.wait(timeout) returns False: the timeout ran out with the Event unset
GetTimeout ==
    /\ blocked # NotBlocked
    /\ blocked.timeout
    /\ ~events[blocked.event]
    /\ Commit(wait_end(World, blocked.p, FALSE))
    /\ gets' = Append(gets, GetRecord(get_return(wait_end(World, blocked.p, FALSE),
                                                  blocked.p),
                                       blocked.p, TRUE))
    /\ blocked' = NotBlocked
    /\ running' = Stood("wait_end", blocked.p)
    /\ UNCHANGED <<ops, adopted, reg, threads, lock>>

\* an executor that resolves its promise with an object whose then keeps the
\* callbacks, and then rejects it: the converting promise is made, and the
\* task is queued, in the executor's context
ContextExecutors ==
    { << <<"resolve", Thenable("then", << >>)>>, <<"reject", e>> >> : e \in Reasons }

NextGet ==
    \/ NewPromise
    \/ \E executor \in ContextExecutors : NewFromExecutor(executor)
    \/ \E p \in DOMAIN heap : \E timed \in BOOLEAN : GetBegin(p, timed)
    \/ GetWake
    \/ GetTimeout
    \/ \E p \in DOMAIN heap : \E value \in PlainValues \cup Promises : DoResolve(p, value)
    \/ \E p \in DOMAIN heap : \E reason \in Reasons : DoReject(p, reason)
    \/ Drain
    \/ DrainOn

SpecGet == Init /\ [][NextGet]_vars

(* ---------------- a get that waits while its promise is settled ------- *)

\* the promises _wait's own target._then(on_result, on_error) returned, which
\* no client holds
WaitDependents ==
    { d \in DOMAIN reg : Callable(reg[d].f) /\ reg[d].f.v.f = "on_result" }

ClientPromises == DOMAIN heap \ WaitDependents

\* the promises a client that settles every promise once may still settle:
\* those neither settled nor resolved with a promise so far
Unresolved ==
    { p \in ClientPromises : heap[p].state = PENDING /\ p \notin DOMAIN adopted }

NextWait ==
    \/ NewPromise
    \/ \E p \in ClientPromises : GetBegin(p, FALSE)
    \/ GetWake
    \/ \E p \in Unresolved :
          \E value \in PlainValues \cup { Ref(q) : q \in ClientPromises } : DoResolve(p, value)
    \/ \E p \in Unresolved : \E reason \in Reasons : DoReject(p, reason)
    \/ Drain
    \/ DrainOn

SpecWait == Init /\ [][NextWait]_vars

(* ------------------------------ threads ------------------------------- *)
(* A thread runs one method call.  Its frame keeps the call's arguments,  *)
(* its locals and its position; a step of a thread is one access to a     *)
(* field other threads can reach, with the local work that leads to it.   *)
(* The interpreter may switch threads between any two steps.              *)

\* threads that run at once
MaxThreads == 3

\* the frame of a thread about to run self.op(a, b)
Frame(op, self, a, b) ==
    [ op |-> op, pc |-> "start", self |-> self, a |-> a, b |-> b,
      promise |-> 0, target |-> 0, index |-> 0, handler |-> None, x |-> None,
      ret |-> None, exc |-> None ]

Finished(t) == threads[t].pc = "done"
AllFinished == \A t \in DOMAIN threads : Finished(t)

(* ------------------------- CountdownLatch.dec ------------------------- *)

\* a mutual exclusion that excludes nobody
NotHeld(l, t) == TRUE

\* with self._lock: a thread enters when no thread holds the lock (no thread
\* here enters it twice)
Acquirable(l, t) == l = 0

\* the frame after one step of dec past the lock's acquisition: the assert,
\* the load and the store of `self.count -= 1`, the load of `return
\* self.count`, and the release of the lock as the with block is left
dec_frame(f, count) ==
    CASE f.pc = "assert" ->
            IF count > 0 THEN [f EXCEPT !.pc = "load"]
            ELSE [f EXCEPT !.pc = "release", !.exc = AssertionError]
      [] f.pc = "load" -> [f EXCEPT !.pc = "store", !.x = Val(count)]
      [] f.pc = "store" -> [f EXCEPT !.pc = "return"]
      [] f.pc = "return" -> [f EXCEPT !.pc = "release", !.ret = Val(count)]
      [] OTHER -> [f EXCEPT !.pc = "done"]

\* the count after that step
dec_count(f, count) == IF f.pc = "store" THEN f.x.v - 1 ELSE count

\* thread t enters the with block of dec
DecAcquire(t) ==
    /\ threads[t].op = "dec"
    /\ threads[t].pc = "start"
    /\ Acquirable(lock, t)
    /\ lock' = t
    /\ threads' = [threads EXCEPT ![t].pc = "assert"]
    /\ UNCHANGED <<running, heap, queue, fatal, calls, error_obj, counter, values, all_promise,
                   promises, events, blocked, ops, adopted, gets, reg>>

\* thread t takes one step inside the with block of dec
DecStep(t) ==
    /\ threads[t].op = "dec"
    /\ threads[t].pc \in { "assert", "load", "store", "return", "release" }
    /\ threads' = [threads EXCEPT ![t] = dec_frame(threads[t], counter)]
    /\ counter' = dec_count(threads[t], counter)
    /\ lock' = IF threads[t].pc = "release" THEN 0 ELSE lock
    /\ UNCHANGED <<running, heap, queue, fatal, calls, error_obj, values, all_promise,
                   promises, events, blocked, ops, adopted, gets, reg>>

\* latch = CountdownLatch(n), and n threads about to call latch.dec()
InitLatch ==
    /\ heap = << >>
    /\ queue = << >>
    /\ fatal = << >>
    /\ calls = << >>
    /\ error_obj = None
    /\ counter \in 1..MaxThreads
    /\ values = << >>
    /\ all_promise = 0
    /\ promises = << >>
    /\ events = << >>
    /\ blocked = NotBlocked
    /\ ops = 0
    /\ adopted = << >>
    /\ gets = << >>
    /\ reg = << >>
    /\ threads = [t \in 1..counter |-> Frame("dec", 0, None, None)]
    /\ lock = 0
    /\ running = NotRunning

NextLatch ==
    \/ \E t \in DOMAIN threads : DecAcquire(t)
    \/ \E t \in DOMAIN threads : DecStep(t)

SpecLatch == InitLatch /\ [][NextLatch]_vars

(* --------------- then and resolve called by several threads ----------- *)

\* what a step of a thread leaves: the world and the thread's frame
Step(w, f) == [w |-> w, f |-> f]
Goto(w, f, pc) == Step(w, [f EXCEPT !.pc = pc])
\* the call ends with an exception
Throw(w, f, e) == Step(w, [f EXCEPT !.pc = "done", !.exc = e])

\* a key of self._handlers
SlotKey(index, offset) == index * CALLBACK_SIZE - CALLBACK_SIZE + offset

\* `assert key not in self._handlers`
assert_absent(w, f, offset, pc) ==
    IF SlotKey(f.index, offset) \in DOMAIN w.heap[f.target].handlers
    THEN Throw(w, f, AssertionError)
    ELSE Goto(w, f, pc)

\* `if callable(x): self._handlers[key] = x`
store_callable(w, f, offset, x, pc) ==
    IF Callable(x)
    THEN Goto([w EXCEPT !.heap[f.target].handlers = Put(@, SlotKey(f.index, offset), x)],
              f, pc)
    ELSE Goto(w, f, pc)

\* one step of target._add_callbacks(did_fulfill, did_reject, promise) with a
\* subscriber for slot 0
add_callbacks0_step(w, f) ==
    CASE f.pc = "assert_promise0" ->
            IF Truthy(w.heap[f.target].promise0) THEN Throw(w, f, AssertionError)
            ELSE Goto(w, f, "assert_fulfill0")
      [] f.pc = "assert_fulfill0" ->
            IF Truthy(w.heap[f.target].fulfillment_handler0)
            THEN Throw(w, f, AssertionError)
            ELSE Goto(w, f, "assert_reject0")
      [] f.pc = "assert_reject0" ->
            IF Truthy(w.heap[f.target].rejection_handler0)
            THEN Throw(w, f, AssertionError)
            ELSE Goto(w, f, "set_promise0")
      [] f.pc = "set_promise0" ->
            Goto([w EXCEPT !.heap[f.target].promise0 = Ref(f.promise)], f, "set_fulfill0")
      [] f.pc = "set_fulfill0" ->
            Goto([w EXCEPT !.heap[f.target].fulfillment_handler0 =
                              IF Callable(f.a) THEN f.a ELSE @], f, "set_reject0")
      [] OTHER ->
            Goto([w EXCEPT !.heap[f.target].rejection_handler0 =
                              IF Callable(f.b) THEN f.b ELSE @], f, "set_length")

\* one step of it with a subscriber for the dictionary
add_callbacks_at_step(w, f) ==
    CASE f.pc = "assert_promise_at" ->
            assert_absent(w, f, CALLBACK_PROMISE_OFFSET, "assert_fulfill_at")
      [] f.pc = "assert_fulfill_at" ->
            assert_absent(w, f, CALLBACK_FULFILL_OFFSET, "assert_reject_at")
      [] f.pc = "assert_reject_at" ->
            assert_absent(w, f, CALLBACK_REJECT_OFFSET, "set_promise_at")
      [] f.pc = "set_promise_at" ->
            Goto([w EXCEPT !.heap[f.target].handlers =
                              Put(@, SlotKey(f.index, CALLBACK_PROMISE_OFFSET),
                                  Ref(f.promise))], f, "set_fulfill_at")
      [] f.pc = "set_fulfill_at" ->
            store_callable(w, f, CALLBACK_FULFILL_OFFSET, f.a, "set_reject_at")
      [] OTHER ->
            store_callable(w, f, CALLBACK_REJECT_OFFSET, f.b, "set_length")

\* one step of target._add_callbacks: the assertion on _is_following, the
\* read of _length, the wrap, the slot's steps, the write of _length
add_callbacks_step(w, f) ==
    CASE f.pc = "assert_following" ->
            IF w.heap[f.target].is_following THEN Throw(w, f, AssertionError)
            ELSE Goto(w, f, "read_length")
      [] f.pc = "read_length" ->
            IF w.heap[f.target].length > MAX_LENGTH - CALLBACK_SIZE
            THEN Goto(w, [f EXCEPT !.index = 0], "wrap")
            ELSE Goto(w, [f EXCEPT !.index = w.heap[f.target].length],
                      IF w.heap[f.target].length = 0 THEN "assert_promise0"
                      ELSE "assert_promise_at")
      [] f.pc = "wrap" ->
            Goto([w EXCEPT !.heap[f.target].length = 0], f, "assert_promise0")
      [] f.pc \in { "assert_promise0", "assert_fulfill0", "assert_reject0",
                    "set_promise0", "set_fulfill0", "set_reject0" } ->
            add_callbacks0_step(w, f)
      [] f.pc = "set_length" ->
            Goto([w EXCEPT !.heap[f.target].length = f.index + 1], f, "return")
      [] OTHER -> add_callbacks_at_step(w, f)

\* one step of self._then(did_fulfill, did_reject) on a settled target: the
\* reads of its state and of its value, and the scheduling of the task
then_settled_step(w, f) ==
    CASE f.pc = "is_fulfilled" ->
            Goto(w, f, IF w.heap[f.target].state = FULFILLED THEN "value"
                       ELSE "is_rejected")
      [] f.pc = "value" ->
            Goto(w, [f EXCEPT !.x = w.heap[f.target].rejection_handler0,
                              !.handler = f.a], "invoke")
      [] f.pc = "is_rejected" ->
            IF w.heap[f.target].state = REJECTED THEN Goto(w, f, "reason")
            ELSE Throw(w, f, Err("UnboundLocalError"))
      [] f.pc = "reason" ->
            Goto(w, [f EXCEPT !.x = w.heap[f.target].fulfillment_handler0,
                              !.handler = f.b], "invoke")
      [] OTHER ->
            Goto(async_invoke(w, InvokeTask(f.self, Ref(f.promise), f.handler, f.x)),
                 f, "return")

\* self._target() as _then calls it
then_walk(w, f) ==
    IF target(w, f.self) = 0 THEN Throw(w, f, AssertionError)
    ELSE IF target(w, f.self) = -1 THEN Throw(w, f, NoReturn)
    ELSE Goto(w, [f EXCEPT !.target = target(w, f.self)], "is_pending")

\* one step of self._then(did_fulfill, did_reject)
then_step(w, f) ==
    CASE f.pc = "start" ->
            Goto(Construct(w), [f EXCEPT !.promise = Len(w.heap) + 1], "target")
      [] f.pc = "target" -> then_walk(w, f)
      [] f.pc = "is_pending" ->
            Goto(w, f, IF w.heap[f.target].state = PENDING THEN "assert_following"
                       ELSE "is_fulfilled")
      [] f.pc \in { "is_fulfilled", "value", "is_rejected", "reason", "invoke" } ->
            then_settled_step(w, f)
      [] f.pc = "return" -> Goto(w, [f EXCEPT !.ret = Ref(f.promise)], "done")
      [] OTHER -> add_callbacks_step(w, f)

\* one step of self._resolve_callback(value) with a value that is no promise:
\* _fulfill's writes of _state and of the value, its reads of _length and of
\* _is_async_guaranteed, and the notification or its scheduling
resolve_step(w, f) ==
    CASE f.pc = "start" ->
            Goto([w EXCEPT !.heap[f.self].state = FULFILLED], f, "set_value")
      [] f.pc = "set_value" ->
            Goto([w EXCEPT !.heap[f.self].rejection_handler0 = f.a], f, "if_length")
      [] f.pc = "if_length" ->
            Goto(w, f, IF w.heap[f.self].length > 0 THEN "notify" ELSE "return")
      [] f.pc = "notify" ->
            IF w.heap[f.self].is_async_guaranteed
            THEN Goto(settle_promises(w, f.self), f, "return")
            ELSE Goto(async_settle_promises(w, f.self), f, "return")
      [] OTHER -> Goto(w, f, "done")

\* the world and the frame a step of a thread leaves
CommitStep(s, t) ==
    /\ Commit([s.w EXCEPT !.exc = None, !.ret = None])
    /\ threads' = [threads EXCEPT ![t] = s.f]

\* thread t takes a step of its then call
ThenStep(t) ==
    /\ threads[t].op = "then"
    /\ ~Finished(t)
    /\ CommitStep(then_step(World, threads[t]), t)
    /\ UNCHANGED <<running, blocked, ops, adopted, gets, reg, lock>>

\* thread t takes a step of its do_resolve call
ResolveStep(t) ==
    /\ threads[t].op = "resolve"
    /\ ~IsPromise(threads[t].a)
    /\ ~Finished(t)
    /\ CommitStep(resolve_step(World, threads[t]), t)
    /\ UNCHANGED <<running, blocked, ops, adopted, gets, reg, lock>>

\* the handlers the threads subscribe with
ThreadHandlers == { Returns, Raises }

\* the calls two threads make at once on the promise p: then and do_resolve,
\* or then and then
Races(p) ==
    { <<Frame("then", p, h, None), Frame("resolve", p, v, None)>> :
          h \in ThreadHandlers, v \in PlainValues }
    \cup { <<Frame("then", p, h, None), Frame("then", p, g, None)>> :
          h \in ThreadHandlers, g \in ThreadHandlers }

\* p = Promise(), and two threads about to call methods of p
InitRace ==
    /\ heap = << NewPromiseRecord >>
    /\ queue = << >>
    /\ fatal = << >>
    /\ calls = << >>
    /\ error_obj = None
    /\ counter = -1
    /\ values = << >>
    /\ all_promise = 0
    /\ promises = << >>
    /\ events = << >>
    /\ blocked = NotBlocked
    /\ ops = 0
    /\ adopted = << >>
    /\ gets = << >>
    /\ reg = << >>
    /\ threads \in Races(1)
    /\ lock = 0
    /\ running = NotRunning

\* p.do_resolve(value) once the threads' calls are over, if none of them has
\* settled p
SettleAfter(value) ==
    /\ AllFinished
    /\ heap[1].state = PENDING
    /\ DoResolve(1, value)

NextRace ==
    \/ \E t \in DOMAIN threads : ThenStep(t)
    \/ \E t \in DOMAIN threads : ResolveStep(t)
    \/ \E value \in PlainValues : SettleAfter(value)
    \/ Drain

SpecRace == InitRace /\ [][NextRace]_vars

(* ----------------- handlers run by several threads -------------------- *)

\* one step of self._settle_promise_from_handler(handler, value, promise):
\* try_catch(handler, value), whose except clause writes _error_obj['e'];
\* the comparison of x with _error_obj and the read of x['e']; and the
\* settling of promise, which no other thread holds
settle_promise_from_handler_step(w, f) ==
    CASE f.pc = "start" ->
            Goto(try_catch_in_context(w, f.a, f.b, f.promise),
                 [f EXCEPT !.x = try_catch_in_context(w, f.a, f.b, f.promise).ret],
                 "compare")
      [] f.pc = "compare" ->
            IF equals_error_obj(f.x, w.error_obj)
            THEN Goto(w, [f EXCEPT !.x = error_of(f.x, w.error_obj)], "reject")
            ELSE Goto(w, f, "resolve")
      [] f.pc = "reject" ->
            IF Ok(reject_callback(w, f.promise, f.x))
            THEN Goto(reject_callback(w, f.promise, f.x), f, "done")
            ELSE Throw(reject_callback(w, f.promise, f.x), f,
                       reject_callback(w, f.promise, f.x).exc)
      [] OTHER ->
            IF Ok(resolve_callback(w, f.promise, f.x))
            THEN Goto(resolve_callback(w, f.promise, f.x), f, "done")
            ELSE Throw(resolve_callback(w, f.promise, f.x), f,
                       resolve_callback(w, f.promise, f.x).exc)

\* thread t takes a step of its _settle_promise_from_handler call
SettleStep(t) ==
    /\ threads[t].op = "settle"
    /\ ~Finished(t)
    /\ CommitStep(settle_promise_from_handler_step(World, threads[t]), t)
    /\ UNCHANGED <<running, blocked, ops, adopted, gets, reg, lock>>

\* the handlers the threads run: each raises an error of its own, or returns
\* 0, or returns a dict
RaisesE1 == Fn("raise", Err("e1"))
RaisesE2 == Fn("raise", Err("e2"))
\* a handler that returns a dict of its own, equal to what the cell holds
\* once a handler has raised e1
ReturnsDict == Fn("ret", Dict([e |-> Err("e1")]))
RunHandlers == { RaisesE1, RaisesE2, Returns, ReturnsDict }

\* the frame of a thread about to run handler for the dependent promise d
SettleFrame(handler, value, d) ==
    [Frame("settle", 0, handler, value) EXCEPT !.promise = d]

\* two or more dependent promises, and for each a thread about to run its
\* subscriber's handler with the value of the promise that settled
InitHandlers ==
    /\ heap \in { [d \in 1..n |-> NewPromiseRecord] : n \in 2..MaxThreads }
    /\ queue = << >>
    /\ fatal = << >>
    /\ calls = << >>
    /\ error_obj = None
    /\ counter = -1
    /\ values = << >>
    /\ all_promise = 0
    /\ promises = << >>
    /\ events = << >>
    /\ blocked = NotBlocked
    /\ ops = 0
    /\ adopted = << >>
    /\ gets = << >>
    /\ reg = << >>
    /\ \E hs \in [DOMAIN heap -> RunHandlers] : \E value \in PlainValues :
          threads = [d \in DOMAIN heap |-> SettleFrame(hs[d], value, d)]
    /\ lock = 0
    /\ running = NotRunning

NextHandlers ==
    \/ \E t \in DOMAIN threads : SettleStep(t)
    \/ Drain

SpecHandlers == InitHandlers /\ [][NextHandlers]_vars

(* ------------------- a callback store near its capacity --------------- *)

\* the subscribers one short of the last index the store takes before wrapping
NearCapacity == MAX_LENGTH - CALLBACK_SIZE - 1

\* the heap after Promise() and n calls of then() with no handlers on it: the
\* first dependent is in the inline slot, the i-th later one at index i
Registered(n) ==
    [id \in 1..(n + 1) |->
        IF id = 1
        THEN [NewPromiseRecord EXCEPT
                !.length = n,
                !.promise0 = IF n > 0 THEN Ref(2) ELSE None,
                !.handlers = [key \in { i * CALLBACK_SIZE - CALLBACK_SIZE
                                        + CALLBACK_PROMISE_OFFSET : i \in 1..(n - 1) }
                              |-> Ref((key - CALLBACK_PROMISE_OFFSET) \div CALLBACK_SIZE + 3)]]
        ELSE NewPromiseRecord]

InitCap ==
    /\ heap = Registered(NearCapacity)
    /\ queue = << >>
    /\ fatal = << >>
    /\ calls = << >>
    /\ error_obj = None
    /\ counter = -1
    /\ values = << >>
    /\ all_promise = 0
    /\ promises = << >>
    /\ events = << >>
    /\ blocked = NotBlocked
    /\ ops = 0
    /\ adopted = << >>
    /\ gets = << >>
    /\ reg = << >>
    /\ threads = << >>
    /\ lock = 0
    /\ running = NotRunning

\* the handlers the subscribers at capacity bring: none, or both
CapHandlerPairs == { <<None, None>>, <<Returns, Returns>> }

NextCap ==
    \/ \E h \in CapHandlerPairs : Subscribe(1, h[1], h[2])
    \/ \E value \in PlainValues : DoResolve(1, value)
    \/ \E reason \in Reasons : DoReject(1, reason)
    \/ Drain

SpecCap == InitCap /\ [][NextCap]_vars

(* ------------------------------ properties ---------------------------- *)

\* the value of a fulfilled promise, the reason of a rejected one
StoredValue(rec) ==
    IF rec.state = REJECTED THEN rec.fulfillment_handler0 ELSE rec.rejection_handler0

\* the handler invocations made with dependent promise d
CallsFor(d) == { i \in DOMAIN calls : calls[i].dep = d }

\* the task the scheduler runs in a Drain step, and the world it leaves
DrainResult == RunTask([World EXCEPT !.queue = Tail(@)], Head(queue))

\* C1: once a promise is Fulfilled or Rejected, no later step changes its
\* state or its stored value or reason.
C1_SettledNeverChanges ==
    [][\A p \in DOMAIN heap :
          heap[p].state # PENDING =>
              /\ heap'[p].state = heap[p].state
              /\ StoredValue(heap'[p]) = StoredValue(heap[p])]_vars

\* C2: a promise resolved with itself, or with a promise whose following
\* chain ends at it, becomes Rejected with the self-resolution error; the call
\* returns and the promise does not start following.
C2_SelfResolutionRejects ==
    [][\A p \in DOMAIN heap : \A q \in DOMAIN heap :
          ((q = p \/ target(World, q) = p) /\ DoResolve(p, Ref(q))) =>
              /\ Ok(resolve_callback(World, p, Ref(q)))
              /\ heap'[p].state = REJECTED
              /\ heap'[p].fulfillment_handler0 = make_self_resolution_error
              /\ heap'[p].is_following = heap[p].is_following]_vars

\* q follows p, and p, resolved with q or with itself, is Rejected with the
\* self-resolution error and follows nothing
C2_Witness ==
    \E p \in DOMAIN heap : \E q \in DOMAIN heap :
        /\ q # p
        /\ q \in DOMAIN adopted /\ adopted[q] = p
        /\ heap[q].is_following /\ heap[q].rejection_handler0 = Ref(p)
        /\ heap[p].state = REJECTED
        /\ heap[p].fulfillment_handler0 = make_self_resolution_error
        /\ ~heap[p].is_following

\* the invocations of the success handler all registered for input i
SuccessCalls(i) ==
    { c \in DOMAIN calls : calls[c].h = Fn("handle_success", Val(i - 1)) }

\* the scheduler has drained: no task is queued and none is under way
Drained == queue = << >> /\ Idle

\* C3: when all has returned and the scheduler has drained, if one of the
\* inputs is Rejected with reason r and the others are Fulfilled, the
\* aggregate promise is Rejected with r.
C3_AllRejectsWithInputReason ==
    (all_promise # 0 /\ Drained) =>
        \A i \in DOMAIN promises :
            ( /\ heap[promises[i]].state = REJECTED
              /\ \A j \in DOMAIN promises \ {i} : heap[promises[j]].state = FULFILLED ) =>
                /\ heap[all_promise].state = REJECTED
                /\ heap[all_promise].fulfillment_handler0 =
                      heap[promises[i]].fulfillment_handler0

\* C4: the aggregate promise of all is Fulfilled exactly when the success
\* handler of every input has run, each of them once; then every input is
\* Fulfilled and the aggregate's value is the list of the inputs' values in
\* input order; and it is Fulfilled once all inputs are and the scheduler
\* has drained.
C4_AllFulfilsInInputOrder ==
    all_promise # 0 =>
        /\ heap[all_promise].state = FULFILLED <=>
              \A i \in DOMAIN promises : SuccessCalls(i) # {}
        /\ \A i \in DOMAIN promises : Cardinality(SuccessCalls(i)) <= 1
        /\ heap[all_promise].state = FULFILLED =>
              /\ \A i \in DOMAIN promises : heap[promises[i]].state = FULFILLED
              /\ heap[all_promise].rejection_handler0 = ValuesList
              /\ values = [i \in DOMAIN promises |-> heap[promises[i]].rejection_handler0]
        /\ ( /\ Drained
             /\ \A i \in DOMAIN promises : heap[promises[i]].state = FULFILLED ) =>
              heap[all_promise].state = FULFILLED

\* the aggregate of two inputs with different values is Fulfilled, the second
\* input's success handler having run before the first's
C4_Witness ==
    /\ all_promise # 0
    /\ Len(promises) = 2
    /\ heap[all_promise].state = FULFILLED
    /\ heap[promises[1]].rejection_handler0 # heap[promises[2]].rejection_handler0
    /\ \E c1 \in SuccessCalls(1) : \E c2 \in SuccessCalls(2) : c2 < c1

\* C5: a then handler that raises e is invoked by the scheduler only, with
\* its dependent promise, which becomes Rejected with e; e does not leave the
\* routine that notifies the subscribers.
C5_HandlerErrorRejectsDependent ==
    [][/\ ~Drain => calls' = calls
       /\ Drain =>
            \A i \in (Len(calls) + 1)..Len(calls') :
                calls'[i].raised =>
                    /\ DrainResult.exc # calls'[i].out
                    /\ calls'[i].dep # 0
                    /\ heap'[calls'[i].dep].state = REJECTED
                    /\ heap'[calls'[i].dep].fulfillment_handler0 = calls'[i].out]_vars

\* C6: a promise q resolved with a promise p that was pending is not
\* Fulfilled while p is Pending, and once p is Fulfilled with v and the
\* scheduler has drained, q is Fulfilled with v.
C6_ResolvedWithPendingAdopts ==
    \A q \in DOMAIN adopted :
        /\ heap[adopted[q]].state = PENDING => heap[q].state # FULFILLED
        /\ (heap[adopted[q]].state = FULFILLED /\ queue = << >>) =>
              /\ heap[q].state = FULFILLED
              /\ settled_value(World, q, TRUE) =
                    [exc |-> None, val |-> heap[adopted[q]].rejection_handler0]

\* a then call made on a promise that was settled and followed nothing
SettledAtThen(d) == reg[d].state # PENDING /\ ~reg[d].following
\* the handler of registration d on the path its promise had taken
PathHandler(d) == IF reg[d].state = FULFILLED THEN reg[d].f ELSE reg[d].r

\* two then calls, d1 before d2, on the same settled promise holding the
\* same value, each with a handler for the path taken
ThenTwiceOnSettled(d1, d2) ==
    /\ d1 < d2
    /\ reg[d1].on = reg[d2].on
    /\ SettledAtThen(d1) /\ SettledAtThen(d2)
    /\ reg[d1].state = reg[d2].state
    /\ reg[d1].value = reg[d2].value
    /\ Callable(PathHandler(d1)) /\ Callable(PathHandler(d2))
    /\ ~heap[reg[d1].on].is_following

\* C7: when then is called twice on a settled promise, each handler is
\* invoked once the scheduler has drained, exactly once, the first registered
\* before the second, and both with the settled value.
C7_ThenTwiceOnSettledInOrder ==
    \A d1 \in DOMAIN reg : \A d2 \in DOMAIN reg :
        ThenTwiceOnSettled(d1, d2) =>
            /\ \A i \in CallsFor(d1) : calls[i].h = PathHandler(d1)
                                        /\ calls[i].arg = reg[d1].value
            /\ \A i \in CallsFor(d2) : calls[i].h = PathHandler(d2)
                                        /\ calls[i].arg = reg[d1].value
            /\ Cardinality(CallsFor(d1)) <= 1
            /\ Cardinality(CallsFor(d2)) <= 1
            /\ \A i \in CallsFor(d2) : \E j \in CallsFor(d1) : j < i
            /\ queue = << >> => CallsFor(d1) # {} /\ CallsFor(d2) # {}

\* both handlers of two then calls on a settled promise have run
C7_Witness ==
    \E d1 \in DOMAIN reg : \E d2 \in DOMAIN reg :
        /\ ThenTwiceOnSettled(d1, d2)
        /\ queue = << >>
        /\ CallsFor(d1) # {} /\ CallsFor(d2) # {}

\* C8: a get whose timeout runs out on a promise that is not settled raises
\* an error, clears the waiting flag, and leaves the state and the following
\* flag as they were; and a later get on that promise that waits until it is
\* woken returns the settled value or raises the stored reason.
C8_TimedOutGetRaises ==
    [][/\ GetTimeout =>
            /\ gets'[Len(gets')].exc # None
            /\ ~heap'[blocked.p].is_waiting
            /\ heap'[blocked.p].state = heap[blocked.p].state
            /\ heap'[blocked.p].is_following = heap[blocked.p].is_following
       /\ ( /\ GetWake
            /\ \E i \in DOMAIN gets : gets[i].p = blocked.p /\ gets[i].timed_out ) =>
            /\ heap[blocked.p].state # PENDING
            /\ heap[blocked.p].state = FULFILLED =>
                  /\ gets'[Len(gets')].exc = None
                  /\ gets'[Len(gets')].val = heap[blocked.p].rejection_handler0
            /\ heap[blocked.p].state = REJECTED =>
                  gets'[Len(gets')].exc = heap[blocked.p].fulfillment_handler0]_vars

\* C9: a then call on a pending promise whose store is at its capacity
\* returns without error, and leaves its dependent promise in the inline
\* slot 0 with a length of 1; and once the promise is settled and the
\* scheduler has drained, that dependent promise is settled too.
C9_WrapKeepsNewestSubscriber ==
    [][/\ \A h \in CapHandlerPairs :
            ( /\ Subscribe(1, h[1], h[2])
              /\ heap[1].state = PENDING
              /\ heap[1].length > MAX_LENGTH - CALLBACK_SIZE ) =>
                /\ Ok(then_(World, 1, h[1], h[2]))
                /\ heap'[1].promise0 = Ref(Len(heap) + 1)
                /\ heap'[1].length = 1
       /\ \A d \in DOMAIN reg' :
            ( /\ reg'[d].on = 1
              /\ reg'[d].state = PENDING
              /\ reg'[d].length > MAX_LENGTH - CALLBACK_SIZE
              /\ heap'[1].state # PENDING
              /\ queue' = << >> ) =>
                heap'[d].state # PENDING]_vars

\* d is stored as a subscriber of the promise record rec
Subscribed(rec, d) ==
    \/ rec.promise0 = Ref(d)
    \/ \E key \in DOMAIN rec.handlers : rec.handlers[key] = Ref(d)

\* d was registered by then on p while p was pending, and p still holds it
SubscriberOf(p, d) ==
    /\ reg[d].on = p
    /\ reg[d].state = PENDING /\ ~reg[d].following
    /\ Subscribed(heap[p], d)

\* C10: when the scheduler notifies the subscribers of a settled promise, a
\* subscriber with no handler for the path taken has its dependent promise
\* settled the same way with the same value, and the subscribers registered
\* after it are notified too.
C10_MissingHandlerPassesThrough ==
    [][\A p \in DOMAIN heap :
          ( /\ Drain
            /\ Head(queue) = SettleTask(p)
            /\ heap[p].state # PENDING /\ ~heap[p].is_following ) =>
              \A d \in DOMAIN reg :
                  ( /\ SubscriberOf(p, d)
                    /\ ~Callable(IF heap[p].state = FULFILLED
                                 THEN reg[d].f ELSE reg[d].r) ) =>
                      /\ heap'[d].state = heap[p].state
                      /\ StoredValue(heap'[d]) = StoredValue(heap[p])
                      /\ \A e \in DOMAIN reg :
                            (e > d /\ SubscriberOf(p, e)) => ~Subscribed(heap'[p], e)]_vars

\* the promise for_dict returned: the dependent of its then on the aggregate
ForDictPromises ==
    { d \in DOMAIN reg : reg[d].f.k = "fn" /\ reg[d].f.v.f = "for_dict.handle_success" }

\* the mapping from each key of the call to the value of the input under it
InputsByKey(d) ==
    [key \in { reg[d].f.v.a.v[i] : i \in DOMAIN promises } |->
        heap[promises[CHOOSE i \in DOMAIN promises : reg[d].f.v.a.v[i] = key]].rejection_handler0]

FinalRejected(e) ==
    { d \in DOMAIN heap : /\ heap[d].is_final /\ heap[d].state = REJECTED
                          /\ heap[d].fulfillment_handler0 = e }

\* the reasons fatal_error was given, and those of the rejected final promises
FatalReasons ==
    { fatal[i] : i \in DOMAIN fatal }
    \cup { heap[d].fulfillment_handler0 :
              d \in { x \in DOMAIN heap : heap[x].is_final /\ heap[x].state = REJECTED } }

\* C12: a final promise that is Rejected has no subscribers and no
\* notification of it is scheduled, and fatal_error has been given every
\* reason as many times as there are final promises Rejected with it: once for
\* each rejected final promise, and never for a promise that is not final.
C12_FinalRejectionIsFatalOnce ==
    /\ \A d \in DOMAIN heap :
          (heap[d].is_final /\ heap[d].state = REJECTED) =>
              /\ heap[d].length = 0
              /\ \A i \in DOMAIN queue : queue[i] # SettleTask(d)
    /\ \A e \in FatalReasons :
          Cardinality({ i \in DOMAIN fatal : fatal[i] = e }) = Cardinality(FinalRejected(e))

\* C13: the stored reason of every Rejected promise is an error object.
C13_RejectedReasonIsError ==
    \A p \in DOMAIN heap :
        heap[p].state = REJECTED => IsException(heap[p].fulfillment_handler0)

\* the handler subscriber d registered for the path promise p has taken
HandlerFor(p, d) == IF heap[p].state = FULFILLED THEN reg[d].f ELSE reg[d].r

\* the handler invocations a step adds to the history
NewCalls == (Len(calls) + 1)..Len(calls')

\* C14: when the scheduler notifies the subscribers of a settled promise,
\* every subscriber registered on it is notified with the settled value or
\* reason (its handler for the path taken is invoked with it, or without one
\* its dependent promise takes the outcome), the handlers run in registration
\* order, and afterwards the promise holds no subscriber and its count is 0.
C14_NotifiedInRegistrationOrder ==
    [][\A p \in DOMAIN heap :
          ( /\ Drain
            /\ Head(queue) = SettleTask(p)
            /\ heap[p].state # PENDING /\ ~heap[p].is_following
            /\ heap[p].length > 0 ) =>
              /\ heap'[p].length = 0
              /\ \A d \in DOMAIN reg :
                    SubscriberOf(p, d) =>
                        /\ ~Subscribed(heap'[p], d)
                        /\ Callable(HandlerFor(p, d)) =>
                              \E i \in NewCalls :
                                  /\ calls'[i].dep = d
                                  /\ calls'[i].h = HandlerFor(p, d)
                                  /\ calls'[i].arg = StoredValue(heap[p])
                        /\ ~Callable(HandlerFor(p, d)) =>
                              /\ heap'[d].state = heap[p].state
                              /\ StoredValue(heap'[d]) = StoredValue(heap[p])
              /\ \A i \in NewCalls : \A j \in NewCalls :
                    (i < j /\ calls'[i].dep \in DOMAIN reg /\ calls'[j].dep \in DOMAIN reg
                       /\ reg[calls'[i].dep].on = p /\ reg[calls'[j].dep].on = p) =>
                        calls'[i].dep < calls'[j].dep]_vars

\* the subscriber a promise record holds at index i: its fulfillment handler,
\* its rejection handler and its dependent promise, None where none is stored
HandlerOrNone(rec, key) == IF key \in DOMAIN rec.handlers THEN rec.handlers[key] ELSE None

SubscriberAt(rec, i) ==
    IF i = 0
    THEN <<rec.fulfillment_handler0, rec.rejection_handler0, rec.promise0>>
    ELSE <<HandlerOrNone(rec, i * CALLBACK_SIZE - CALLBACK_SIZE + CALLBACK_FULFILL_OFFSET),
           HandlerOrNone(rec, i * CALLBACK_SIZE - CALLBACK_SIZE + CALLBACK_REJECT_OFFSET),
           HandlerOrNone(rec, i * CALLBACK_SIZE - CALLBACK_SIZE + CALLBACK_PROMISE_OFFSET)>>

\* C15: when a pending promise p with k subscribers is resolved with a
\* promise whose target t is another pending promise with m subscribers, the
\* call returns, t then has m + k subscribers, its own m where they were and
\* p's k after them in their order with the same handlers and dependent
\* promises, and p follows t with a subscriber count of 0.
C15_MigrationKeepsOrder ==
    [][\A p \in DOMAIN heap : \A q \in DOMAIN heap :
          ( /\ heap[p].state = PENDING /\ ~heap[p].is_following
            /\ target(World, q) \in DOMAIN heap \ {p}
            /\ heap[target(World, q)].state = PENDING
            /\ DoResolve(p, Ref(q)) ) =>
              /\ Ok(resolve_callback(World, p, Ref(q)))
              /\ heap'[target(World, q)].length =
                    heap[target(World, q)].length + heap[p].length
              /\ \A i \in 0..(heap[target(World, q)].length - 1) :
                    SubscriberAt(heap'[target(World, q)], i) =
                        SubscriberAt(heap[target(World, q)], i)
              /\ \A j \in 0..(heap[p].length - 1) :
                    SubscriberAt(heap'[target(World, q)], heap[target(World, q)].length + j) =
                        SubscriberAt(heap[p], j)
              /\ heap'[p].is_following
              /\ heap'[p].rejection_handler0 = Ref(target(World, q))
              /\ heap'[p].length = 0]_vars

\* C16: the followee of a following promise is not itself following.
C16_FollowingIsFlat ==
    \A p \in DOMAIN heap :
        (heap[p].is_following /\ IsPromise(heap[p].rejection_handler0)) =>
            ~heap[heap[p].rejection_handler0.v].is_following

\* C17: from every promise the walk over the followees ends, and it ends at
\* a promise that is not following: it neither goes on for ever nor stops at
\* a following promise that has no followee to give.
C17_TargetWalkEnds ==
    \A p \in DOMAIN heap :
        /\ target(World, p) # -1
        /\ target(World, p) \in DOMAIN heap
        /\ ~heap[target(World, p)].is_following

\* the invocations of handler h, and the then calls that registered it
InvocationsOf(h) == { i \in DOMAIN calls : calls[i].h = h }
RegistrationsOf(h) == { d \in DOMAIN reg : reg[d].f = h \/ reg[d].r = h }

\* C18: no handler is invoked more often than there are subscribers that
\* registered it: every subscriber has at most one of its handlers invoked,
\* at most once.
C18_HandlerInvokedAtMostOnce ==
    \A i \in DOMAIN calls :
        Cardinality(InvocationsOf(calls[i].h)) <= Cardinality(RegistrationsOf(calls[i].h))

\* the scheduler is about to run the task that then scheduled on promise q
\* for its dependent promise d
ThenTaskOf(q, d) ==
    /\ Len(queue) > 0
    /\ Head(queue).t = "invoke"
    /\ Head(queue).self = q
    /\ Head(queue).promise = Ref(d)

\* C19: when the scheduler runs the task of a then call made on a following
\* promise q whose target was settled, the task ends without an error; the
\* handler then had for the target's outcome is invoked with the target's
\* value or reason and the dependent promise is settled from what it returns
\* or raises; with no handler the dependent promise takes the target's
\* outcome.
C19_ThenOnFollowerOfSettled ==
    [][\A q \in DOMAIN heap : \A d \in DOMAIN heap :
          ( /\ ThenTaskOf(q, d)
            /\ heap[q].is_following
            /\ target(World, q) \in DOMAIN heap
            /\ heap[target(World, q)].state # PENDING
            /\ heap[d].state = PENDING
            /\ Drain ) =>
              /\ Ok(DrainResult)
              /\ Callable(Head(queue).handler) =>
                    /\ Len(calls') = Len(calls) + 1
                    /\ calls'[Len(calls')].h = Head(queue).handler
                    /\ calls'[Len(calls')].arg = StoredValue(heap[target(World, q)])
                    /\ heap'[d].state =
                          IF calls'[Len(calls')].raised THEN REJECTED ELSE FULFILLED
                    /\ StoredValue(heap'[d]) = calls'[Len(calls')].out
              /\ ~Callable(Head(queue).handler) =>
                    /\ heap'[d].state = heap[target(World, q)].state
                    /\ StoredValue(heap'[d]) = StoredValue(heap[target(World, q)])]_vars

\* C20: a get with no timeout, called on a pending promise q whose target
\* was t, has its wait signaled once t is settled and the scheduler has
\* drained; and when it wakes, q itself is Fulfilled with t's value or
\* Rejected with t's reason, and get returns that value or raises that reason.
C20_GetFollowsTarget ==
    [][/\ ( /\ blocked # NotBlocked /\ ~blocked.timeout
            /\ heap[blocked.target].state # PENDING
            /\ ~heap[blocked.target].is_following
            /\ queue = << >> ) =>
              events[blocked.event]
       /\ ( /\ GetWake /\ ~blocked.timeout ) =>
              /\ heap[blocked.target].state # PENDING
              /\ heap'[blocked.p].state = heap[blocked.target].state
              /\ StoredValue(heap'[blocked.p]) = StoredValue(heap[blocked.target])
              /\ heap[blocked.target].state = FULFILLED =>
                    /\ gets'[Len(gets')].exc = None
                    /\ gets'[Len(gets')].val = heap[blocked.target].rejection_handler0
              /\ heap[blocked.target].state = REJECTED =>
                    gets'[Len(gets')].exc = heap[blocked.target].fulfillment_handler0]_vars

\* C21: for a CountdownLatch initialised to N and N concurrent dec calls, no
\* call fails, the values returned are N-1, ..., 0, each returned once, so one
\* caller observes 0, and the count is never negative.
C21_LatchCountsDown ==
    /\ counter >= 0
    /\ \A t \in DOMAIN threads :
          Finished(t) =>
              /\ threads[t].exc = None
              /\ threads[t].ret.k = "val"
              /\ threads[t].ret.v \in 0..(Len(threads) - 1)
              /\ \A u \in DOMAIN threads :
                    (Finished(u) /\ u # t) => threads[u].ret # threads[t].ret
    /\ AllFinished =>
          /\ counter = 0
          /\ { threads[t].ret.v : t \in DOMAIN threads } = 0..(Len(threads) - 1)
          /\ Cardinality({ t \in DOMAIN threads : threads[t].ret = Val(0) }) = 1

\* three dec calls have returned, the last of them not the last to start
C21_Witness ==
    /\ Len(threads) = MaxThreads
    /\ AllFinished
    /\ threads[1].ret = Val(0)

\* the threads' calls: then with do_resolve, then with then
ThenAndResolve ==
    Len(threads) = 2 /\ threads[1].op = "then" /\ threads[2].op = "resolve"
ThenAndThen ==
    Len(threads) = 2 /\ threads[1].op = "then" /\ threads[2].op = "then"

\* the threads' calls are over and the scheduler has nothing left to run
Quiescent == AllFinished /\ queue = << >>

\* C22: when one thread calls then(f) on a pending promise and another
\* resolves that promise with v, under every interleaving neither call ends
\* with an error, f is never invoked with anything but v nor more than once,
\* and once the calls are over and the scheduler has drained f has been
\* invoked exactly once.
C22_ThenRacingResolve ==
    ThenAndResolve =>
        /\ \A t \in DOMAIN threads : threads[t].exc = None
        /\ Cardinality(CallsFor(threads[1].promise)) <= 1
        /\ \A i \in CallsFor(threads[1].promise) :
              calls[i].h = threads[1].a /\ calls[i].arg = threads[2].a
        /\ Quiescent => Cardinality(CallsFor(threads[1].promise)) = 1

\* C23: when two threads call then on the same pending promise, under every
\* interleaving neither call ends with an error, the promise then holds two
\* subscribers, the two dependents at indices 0 and 1, and once it is
\* settled and the scheduler has drained both handlers have been invoked once.
C23_ThenRacingThen ==
    ThenAndThen =>
        /\ \A t \in DOMAIN threads : threads[t].exc = None
        /\ (AllFinished /\ heap[1].state = PENDING) =>
              /\ heap[1].length = 2
              /\ { SubscriberAt(heap[1], 0)[3], SubscriberAt(heap[1], 1)[3] }
                    = { Ref(threads[1].promise), Ref(threads[2].promise) }
        /\ (Quiescent /\ heap[1].state # PENDING) =>
              \A t \in DOMAIN threads :
                  Cardinality(CallsFor(threads[t].promise)) = 1

\* C24: when the handlers of different subscribers run on different threads
\* and raise different errors, under every interleaving the dependent promise
\* of each is Rejected with the error its own handler raised.
C24_OwnErrorRejects ==
    \A t \in DOMAIN threads :
        (threads[t].op = "settle" /\ threads[t].a.v.f = "raise" /\ Finished(t)) =>
            /\ threads[t].exc = None
            /\ heap[threads[t].promise].state = REJECTED
            /\ heap[threads[t].promise].fulfillment_handler0 = threads[t].a.v.a

====
